---- MODULE Spec2Model ----
(***************************************************************************)
(* GTFS-Realtime feed flattening: the CLI path (gtfs_parser.py,            *)
(* parse_gtfs_realtime) and the web path (webapp/app.py, upload_file)      *)
(* turn a decoded FeedMessage into an ordered list of flat records.        *)
(*                                                                         *)
(* A protobuf message is a record holding a value for every field (the     *)
(* proto2 default when the field is unset) and the set `present` of the    *)
(* fields that are set, which is what HasField reads.  A Python value that *)
(* may be a number or a string is a tagged pair <<"int", n>>,              *)
(* <<"float", n>> or <<"str", s>>; columns that are always strings are     *)
(* plain strings.                                                          *)
(*                                                                         *)
(* The web service is modelled a second time over its temp directory       *)
(* (SpecWeb): upload_file step by step at each file access, download_file  *)
(* in one step, two requests in flight.                                    *)
(***************************************************************************)
EXTENDS Integers, Sequences, FiniteSets, TLC

VARIABLES feed, cli_pc, df, web_pc, web_df, fs, req

vars == <<feed, cli_pc, df, web_pc, web_df, fs, req>>

(* Bounds of the model. *)
MaxEntities == 2
MaxStopUpdates == 2
MaxPeriods == 2
MaxInformed == 2
MaxTranslations == 3

(***************************************************************************)
(* Python and protobuf primitives                                          *)
(***************************************************************************)
PyInt(n) == <<"int", n>>
PyFloat(n) == <<"float", n>>
PyStr(s) == <<"str", s>>

HasField(msg, name) == name \in msg.present

Digits == <<"0", "1", "2", "3", "4", "5", "6", "7", "8", "9">>

RECURSIVE IntToStr(_)
IntToStr(n) ==
    IF n < 10 THEN Digits[n + 1]
    ELSE IntToStr(n \div 10) \o Digits[(n % 10) + 1]

(* What an f-string replacement field {v} renders: str(v). *)
Fmt(v) == IF v[1] = "str" THEN v[2] ELSE IntToStr(v[2])

(* sep.join(parts) *)
RECURSIVE Join(_, _)
Join(sep, parts) ==
    IF Len(parts) = 0 THEN ""
    ELSE IF Len(parts) = 1 THEN parts[1]
    ELSE parts[1] \o sep \o Join(sep, Tail(parts))

(* Truth value of a dict: non-empty. *)
Truthy(d) == DOMAIN d # {}

(* Sequences over S of length at most n. *)
SeqUpTo(S, n) == UNION {[1..k -> S] : k \in 0..n}

(* Enum value -> name tables of gtfs_realtime_pb2. *)
ScheduleRelationshipName(v) ==
    CASE v = 0 -> "SCHEDULED"
      [] v = 1 -> "ADDED"
      [] v = 2 -> "UNSCHEDULED"
      [] v = 3 -> "CANCELED"

VehicleStopStatusName(v) ==
    CASE v = 0 -> "INCOMING_AT"
      [] v = 1 -> "STOPPED_AT"
      [] v = 2 -> "IN_TRANSIT_TO"

CauseName(v) ==
    CASE v = 1 -> "UNKNOWN_CAUSE"
      [] v = 2 -> "OTHER_CAUSE"
      [] v = 3 -> "TECHNICAL_PROBLEM"

EffectName(v) ==
    CASE v = 1 -> "NO_SERVICE"
      [] v = 2 -> "REDUCED_SERVICE"
      [] v = 8 -> "UNKNOWN_EFFECT"

(***************************************************************************)
(* Default (unset) protobuf messages                                       *)
(***************************************************************************)
DefaultTripDescriptor ==
    [present |-> {}, trip_id |-> "", route_id |-> "", schedule_relationship |-> 0]

DefaultStopTimeEvent == [present |-> {}, time |-> 0]

DefaultTripUpdate ==
    [present |-> {}, trip |-> DefaultTripDescriptor,
     stop_time_update |-> <<>>, timestamp |-> 0]

DefaultVehicleDescriptor == [present |-> {}, id |-> "", label |-> ""]

DefaultPosition ==
    [present |-> {}, latitude |-> 0, longitude |-> 0, bearing |-> 0, speed |-> 0]

DefaultVehiclePosition ==
    [present |-> {}, trip |-> DefaultTripDescriptor,
     vehicle |-> DefaultVehicleDescriptor, position |-> DefaultPosition,
     stop_id |-> "", current_status |-> 2, timestamp |-> 0]

DefaultTranslatedString == [translation |-> <<>>]

DefaultAlert ==
    [active_period |-> <<>>, informed_entity |-> <<>>, cause |-> 1, effect |-> 8,
     header_text |-> DefaultTranslatedString,
     description_text |-> DefaultTranslatedString]

FeedEntity(id, present, tu, vp, al) ==
    [id |-> id, present |-> present, trip_update |-> tu, vehicle |-> vp, alert |-> al]

(***************************************************************************)
(* gtfs_parser.py: the extractors of the CLI path                          *)
(***************************************************************************)
(* stop_update_text reading arrival.time without the inner HasField. *)
stop_update_text_unchecked_time(stop_update) ==
    LET stop_id == IF HasField(stop_update, "stop_id")
                   THEN PyStr(stop_update.stop_id) ELSE PyStr("")
        arrival_time == IF HasField(stop_update, "arrival")
                        THEN PyInt(stop_update.arrival.time) ELSE PyStr("")
        departure_time ==
            IF HasField(stop_update, "departure") /\ HasField(stop_update.departure, "time")
            THEN PyInt(stop_update.departure.time) ELSE PyStr("")
    IN  Fmt(stop_id) \o ":" \o Fmt(arrival_time) \o "-" \o Fmt(departure_time)

stop_update_text(stop_update) ==
    LET stop_id == IF HasField(stop_update, "stop_id")
                   THEN PyStr(stop_update.stop_id) ELSE PyStr("")
        arrival_time ==
            IF HasField(stop_update, "arrival") /\ HasField(stop_update.arrival, "time")
            THEN PyInt(stop_update.arrival.time) ELSE PyStr("")
        departure_time ==
            IF HasField(stop_update, "departure") /\ HasField(stop_update.departure, "time")
            THEN PyInt(stop_update.departure.time) ELSE PyStr("")
    IN  Fmt(stop_id) \o ":" \o Fmt(arrival_time) \o "-" \o Fmt(departure_time)

stop_updates(trip_update) ==
    [k \in 1..Len(trip_update.stop_time_update) |->
        stop_update_text(trip_update.stop_time_update[k])]

(* schedule_relationship with the missing-value default of the other       *)
(* columns.                                                                *)
schedule_relationship_empty_default(trip_update) ==
    IF HasField(trip_update.trip, "schedule_relationship")
    THEN ScheduleRelationshipName(trip_update.trip.schedule_relationship)
    ELSE ""

schedule_relationship(trip_update) ==
    IF HasField(trip_update.trip, "schedule_relationship")
    THEN ScheduleRelationshipName(trip_update.trip.schedule_relationship)
    ELSE "SCHEDULED"

(* process_trip_update that leaves the Timestamp key out of the record     *)
(* when the message has no timestamp.                                      *)
process_trip_update_sparse(entity) ==
    LET trip_update == entity.trip_update
        trip_id == IF HasField(trip_update.trip, "trip_id")
                   THEN trip_update.trip.trip_id ELSE ""
        route_id == IF HasField(trip_update.trip, "route_id")
                    THEN trip_update.trip.route_id ELSE ""
        record == "Entity ID" :> entity.id
                  @@ "Type" :> "trip_update"
                  @@ "Trip ID" :> trip_id
                  @@ "Route ID" :> route_id
                  @@ "Schedule Relationship" :> schedule_relationship(trip_update)
                  @@ "Stop Updates" :> Join("; ", stop_updates(trip_update))
    IN  IF HasField(trip_update, "timestamp")
        THEN record @@ "Timestamp" :> PyInt(trip_update.timestamp)
        ELSE record

process_trip_update(entity) ==
    LET trip_update == entity.trip_update
        trip_id == IF HasField(trip_update.trip, "trip_id")
                   THEN trip_update.trip.trip_id ELSE ""
        route_id == IF HasField(trip_update.trip, "route_id")
                    THEN trip_update.trip.route_id ELSE ""
    IN  "Entity ID" :> entity.id
        @@ "Type" :> "trip_update"
        @@ "Trip ID" :> trip_id
        @@ "Route ID" :> route_id
        @@ "Schedule Relationship" :> schedule_relationship(trip_update)
        @@ "Stop Updates" :> Join("; ", stop_updates(trip_update))
        @@ "Timestamp" :> (IF HasField(trip_update, "timestamp")
                           THEN PyInt(trip_update.timestamp) ELSE PyStr(""))

vehicle_descriptor_fields(vehicle) ==
    [trip_id |-> IF HasField(vehicle, "trip") /\ HasField(vehicle.trip, "trip_id")
                 THEN vehicle.trip.trip_id ELSE "",
     route_id |-> IF HasField(vehicle, "trip") /\ HasField(vehicle.trip, "route_id")
                  THEN vehicle.trip.route_id ELSE "",
     vehicle_id |-> IF HasField(vehicle, "vehicle") /\ HasField(vehicle.vehicle, "id")
                    THEN vehicle.vehicle.id ELSE "",
     vehicle_label |-> IF HasField(vehicle, "vehicle") /\ HasField(vehicle.vehicle, "label")
                       THEN vehicle.vehicle.label ELSE ""]

(* position_fields reading bearing without the inner HasField. *)
position_fields_unchecked_bearing(vehicle) ==
    [latitude |-> IF HasField(vehicle, "position")
                  THEN PyFloat(vehicle.position.latitude) ELSE PyStr(""),
     longitude |-> IF HasField(vehicle, "position")
                   THEN PyFloat(vehicle.position.longitude) ELSE PyStr(""),
     bearing |-> IF HasField(vehicle, "position")
                 THEN PyFloat(vehicle.position.bearing) ELSE PyStr(""),
     speed |-> IF HasField(vehicle, "position") /\ HasField(vehicle.position, "speed")
               THEN PyFloat(vehicle.position.speed) ELSE PyStr("")]

position_fields(vehicle) ==
    [latitude |-> IF HasField(vehicle, "position")
                  THEN PyFloat(vehicle.position.latitude) ELSE PyStr(""),
     longitude |-> IF HasField(vehicle, "position")
                   THEN PyFloat(vehicle.position.longitude) ELSE PyStr(""),
     bearing |-> IF HasField(vehicle, "position") /\ HasField(vehicle.position, "bearing")
                 THEN PyFloat(vehicle.position.bearing) ELSE PyStr(""),
     speed |-> IF HasField(vehicle, "position") /\ HasField(vehicle.position, "speed")
               THEN PyFloat(vehicle.position.speed) ELSE PyStr("")]

(* current_status resolving the enum without the HasField test, which      *)
(* yields the name of the field's default value.                           *)
current_status_default_name(vehicle) == VehicleStopStatusName(vehicle.current_status)

current_status(vehicle) ==
    IF HasField(vehicle, "current_status")
    THEN VehicleStopStatusName(vehicle.current_status) ELSE ""

process_vehicle_position(entity) ==
    LET vehicle == entity.vehicle
        d == vehicle_descriptor_fields(vehicle)
        p == position_fields(vehicle)
        current_stop == IF HasField(vehicle, "stop_id") THEN vehicle.stop_id ELSE ""
    IN  "Entity ID" :> entity.id
        @@ "Type" :> "vehicle_position"
        @@ "Trip ID" :> d.trip_id
        @@ "Route ID" :> d.route_id
        @@ "Vehicle ID" :> d.vehicle_id
        @@ "Vehicle Label" :> d.vehicle_label
        @@ "Latitude" :> p.latitude
        @@ "Longitude" :> p.longitude
        @@ "Bearing" :> p.bearing
        @@ "Speed" :> p.speed
        @@ "Current Stop" :> current_stop
        @@ "Current Status" :> current_status(vehicle)
        @@ "Timestamp" :> (IF HasField(vehicle, "timestamp")
                           THEN PyInt(vehicle.timestamp) ELSE PyStr(""))

(* f"{ap.start}-{ap.end}": the fields are read without HasField, so an     *)
(* unset bound reads as the proto2 default.                                *)
active_period_text(ap) == Fmt(PyInt(ap.start)) \o "-" \o Fmt(PyInt(ap.end))

active_periods(alert) ==
    IF Len(alert.active_period) > 0
    THEN Join("; ", [k \in 1..Len(alert.active_period) |->
                        active_period_text(alert.active_period[k])])
    ELSE ""

(* informed_parts emitting every key, populated or not. *)
informed_parts_every_key(ie) ==
    <<"route_id=" \o ie.route_id, "stop_id=" \o ie.stop_id, "agency_id=" \o ie.agency_id>>

informed_parts(ie) ==
    (IF HasField(ie, "route_id") THEN <<"route_id=" \o ie.route_id>> ELSE <<>>)
    \o (IF HasField(ie, "stop_id") THEN <<"stop_id=" \o ie.stop_id>> ELSE <<>>)
    \o (IF HasField(ie, "agency_id") THEN <<"agency_id=" \o ie.agency_id>> ELSE <<>>)

informed_entities(alert) ==
    Join("; ", [k \in 1..Len(alert.informed_entity) |->
                   Join(" | ", informed_parts(alert.informed_entity[k]))])

(* hebrew_text with the break left out: the last Hebrew entry wins. *)
RECURSIVE hebrew_text_no_break(_)
hebrew_text_no_break(translation) ==
    IF Len(translation) = 0 THEN ""
    ELSE LET later == hebrew_text_no_break(Tail(translation))
         IN  IF later # "" THEN later
             ELSE IF translation[1].language = "he" /\ translation[1].text # ""
                  THEN translation[1].text
                  ELSE ""

(* The for loop with break: the text of the first entry tagged "he" whose  *)
(* text is truthy, "" when the loop ends without a break.                  *)
RECURSIVE hebrew_text(_)
hebrew_text(translation) ==
    IF Len(translation) = 0 THEN ""
    ELSE IF translation[1].language = "he" /\ translation[1].text # ""
         THEN translation[1].text
         ELSE hebrew_text(Tail(translation))

(* header_text falling back to the first non-empty text instead of the     *)
(* first entry.                                                            *)
RECURSIVE first_non_empty_text(_)
first_non_empty_text(translation) ==
    IF Len(translation) = 0 THEN ""
    ELSE IF translation[1].text # "" THEN translation[1].text
    ELSE first_non_empty_text(Tail(translation))

header_text_first_non_empty(alert) ==
    LET text == hebrew_text(alert.header_text.translation)
    IN  IF text = "" THEN first_non_empty_text(alert.header_text.translation) ELSE text

header_text(alert) ==
    LET text == hebrew_text(alert.header_text.translation)
    IN  IF text = "" /\ Len(alert.header_text.translation) > 0
        THEN alert.header_text.translation[1].text
        ELSE text

description_text(alert) ==
    LET text == hebrew_text(alert.description_text.translation)
    IN  IF text = "" /\ Len(alert.description_text.translation) > 0
        THEN alert.description_text.translation[1].text
        ELSE text

process_alert(entity) ==
    LET alert == entity.alert
    IN  "Entity ID" :> entity.id
        @@ "Type" :> "alert"
        @@ "Active Periods" :> active_periods(alert)
        @@ "Informed Entities" :> informed_entities(alert)
        @@ "Cause" :> CauseName(alert.cause)
        @@ "Effect" :> EffectName(alert.effect)
        @@ "Header Text" :> header_text(alert)
        @@ "Description Text" :> description_text(alert)

(***************************************************************************)
(* webapp/app.py: the extractors of the web path, the same code again      *)
(* without the Type column                                                 *)
(***************************************************************************)
web_stop_update_text(stop_update) ==
    LET stop_id == IF HasField(stop_update, "stop_id")
                   THEN PyStr(stop_update.stop_id) ELSE PyStr("")
        arrival_time ==
            IF HasField(stop_update, "arrival") /\ HasField(stop_update.arrival, "time")
            THEN PyInt(stop_update.arrival.time) ELSE PyStr("")
        departure_time ==
            IF HasField(stop_update, "departure") /\ HasField(stop_update.departure, "time")
            THEN PyInt(stop_update.departure.time) ELSE PyStr("")
    IN  Fmt(stop_id) \o ":" \o Fmt(arrival_time) \o "-" \o Fmt(departure_time)

web_stop_updates(trip_update) ==
    [k \in 1..Len(trip_update.stop_time_update) |->
        web_stop_update_text(trip_update.stop_time_update[k])]

web_schedule_relationship(trip_update) ==
    IF HasField(trip_update.trip, "schedule_relationship")
    THEN ScheduleRelationshipName(trip_update.trip.schedule_relationship)
    ELSE "SCHEDULED"

web_process_trip_update(entity) ==
    LET trip_update == entity.trip_update
        trip_id == IF HasField(trip_update.trip, "trip_id")
                   THEN trip_update.trip.trip_id ELSE ""
        route_id == IF HasField(trip_update.trip, "route_id")
                    THEN trip_update.trip.route_id ELSE ""
    IN  "Entity ID" :> entity.id
        @@ "Trip ID" :> trip_id
        @@ "Route ID" :> route_id
        @@ "Schedule Relationship" :> web_schedule_relationship(trip_update)
        @@ "Stop Updates" :> Join("; ", web_stop_updates(trip_update))
        @@ "Timestamp" :> (IF HasField(trip_update, "timestamp")
                           THEN PyInt(trip_update.timestamp) ELSE PyStr(""))

web_vehicle_descriptor_fields(vehicle) ==
    [trip_id |-> IF HasField(vehicle, "trip") /\ HasField(vehicle.trip, "trip_id")
                 THEN vehicle.trip.trip_id ELSE "",
     route_id |-> IF HasField(vehicle, "trip") /\ HasField(vehicle.trip, "route_id")
                  THEN vehicle.trip.route_id ELSE "",
     vehicle_id |-> IF HasField(vehicle, "vehicle") /\ HasField(vehicle.vehicle, "id")
                    THEN vehicle.vehicle.id ELSE "",
     vehicle_label |-> IF HasField(vehicle, "vehicle") /\ HasField(vehicle.vehicle, "label")
                       THEN vehicle.vehicle.label ELSE ""]

web_position_fields(vehicle) ==
    [latitude |-> IF HasField(vehicle, "position")
                  THEN PyFloat(vehicle.position.latitude) ELSE PyStr(""),
     longitude |-> IF HasField(vehicle, "position")
                   THEN PyFloat(vehicle.position.longitude) ELSE PyStr(""),
     bearing |-> IF HasField(vehicle, "position") /\ HasField(vehicle.position, "bearing")
                 THEN PyFloat(vehicle.position.bearing) ELSE PyStr(""),
     speed |-> IF HasField(vehicle, "position") /\ HasField(vehicle.position, "speed")
               THEN PyFloat(vehicle.position.speed) ELSE PyStr("")]

web_current_status(vehicle) ==
    IF HasField(vehicle, "current_status")
    THEN VehicleStopStatusName(vehicle.current_status) ELSE ""

web_process_vehicle_position(entity) ==
    LET vehicle == entity.vehicle
        d == web_vehicle_descriptor_fields(vehicle)
        p == web_position_fields(vehicle)
        current_stop == IF HasField(vehicle, "stop_id") THEN vehicle.stop_id ELSE ""
    IN  "Entity ID" :> entity.id
        @@ "Trip ID" :> d.trip_id
        @@ "Route ID" :> d.route_id
        @@ "Vehicle ID" :> d.vehicle_id
        @@ "Vehicle Label" :> d.vehicle_label
        @@ "Latitude" :> p.latitude
        @@ "Longitude" :> p.longitude
        @@ "Bearing" :> p.bearing
        @@ "Speed" :> p.speed
        @@ "Current Stop" :> current_stop
        @@ "Current Status" :> web_current_status(vehicle)
        @@ "Timestamp" :> (IF HasField(vehicle, "timestamp")
                           THEN PyInt(vehicle.timestamp) ELSE PyStr(""))

(* f"{ap.start}-{ap.end}": the fields are read without HasField, so an     *)
(* unset bound reads as the proto2 default.                                *)
web_active_period_text(ap) == Fmt(PyInt(ap.start)) \o "-" \o Fmt(PyInt(ap.end))

web_active_periods(alert) ==
    IF Len(alert.active_period) > 0
    THEN Join("; ", [k \in 1..Len(alert.active_period) |->
                        web_active_period_text(alert.active_period[k])])
    ELSE ""

web_informed_parts(ie) ==
    (IF HasField(ie, "route_id") THEN <<"route_id=" \o ie.route_id>> ELSE <<>>)
    \o (IF HasField(ie, "stop_id") THEN <<"stop_id=" \o ie.stop_id>> ELSE <<>>)
    \o (IF HasField(ie, "agency_id") THEN <<"agency_id=" \o ie.agency_id>> ELSE <<>>)

web_informed_entities(alert) ==
    Join("; ", [k \in 1..Len(alert.informed_entity) |->
                   Join(" | ", web_informed_parts(alert.informed_entity[k]))])

(* The for loop with break: the text of the first entry tagged "he" whose  *)
(* text is truthy, "" when the loop ends without a break.                  *)
RECURSIVE web_hebrew_text(_)
web_hebrew_text(translation) ==
    IF Len(translation) = 0 THEN ""
    ELSE IF translation[1].language = "he" /\ translation[1].text # ""
         THEN translation[1].text
         ELSE web_hebrew_text(Tail(translation))

web_header_text(alert) ==
    LET text == web_hebrew_text(alert.header_text.translation)
    IN  IF text = "" /\ Len(alert.header_text.translation) > 0
        THEN alert.header_text.translation[1].text
        ELSE text

web_description_text(alert) ==
    LET text == web_hebrew_text(alert.description_text.translation)
    IN  IF text = "" /\ Len(alert.description_text.translation) > 0
        THEN alert.description_text.translation[1].text
        ELSE text

web_process_alert(entity) ==
    LET alert == entity.alert
    IN  "Entity ID" :> entity.id
        @@ "Active Periods" :> web_active_periods(alert)
        @@ "Informed Entities" :> web_informed_entities(alert)
        @@ "Cause" :> CauseName(alert.cause)
        @@ "Effect" :> EffectName(alert.effect)
        @@ "Header Text" :> web_header_text(alert)
        @@ "Description Text" :> web_description_text(alert)

(***************************************************************************)
(* The two handlers: classify each entity, collect the records, sort       *)
(***************************************************************************)
(* cli_classify with the elif chain written as three separate ifs. *)
cli_classify_every_branch(entity) ==
    (IF HasField(entity, "trip_update") THEN <<process_trip_update(entity)>> ELSE <<>>)
    \o (IF HasField(entity, "vehicle") THEN <<process_vehicle_position(entity)>> ELSE <<>>)
    \o (IF HasField(entity, "alert") THEN <<process_alert(entity)>> ELSE <<>>)

(* One pass of the CLI loop body: the if / elif / elif chain. *)
cli_classify(entity) ==
    IF HasField(entity, "trip_update")
    THEN LET trip_update_data == process_trip_update(entity)
         IN  IF Truthy(trip_update_data) THEN <<trip_update_data>> ELSE <<>>
    ELSE IF HasField(entity, "vehicle")
    THEN LET vehicle_data == process_vehicle_position(entity)
         IN  IF Truthy(vehicle_data) THEN <<vehicle_data>> ELSE <<>>
    ELSE IF HasField(entity, "alert")
    THEN LET alert_data == process_alert(entity)
         IN  IF Truthy(alert_data) THEN <<alert_data>> ELSE <<>>
    ELSE <<>>

RECURSIVE cli_data(_)
cli_data(entities) ==
    IF Len(entities) = 0 THEN <<>>
    ELSE cli_classify(entities[1]) \o cli_data(Tail(entities))

(* One pass of the web loop body: alert is tested first. *)
web_classify(entity) ==
    IF HasField(entity, "alert")
    THEN LET alert_data == web_process_alert(entity)
         IN  IF Truthy(alert_data) THEN <<alert_data>> ELSE <<>>
    ELSE IF HasField(entity, "trip_update")
    THEN LET trip_update_data == web_process_trip_update(entity)
         IN  IF Truthy(trip_update_data) THEN <<trip_update_data>> ELSE <<>>
    ELSE IF HasField(entity, "vehicle")
    THEN LET vehicle_data == web_process_vehicle_position(entity)
         IN  IF Truthy(vehicle_data) THEN <<vehicle_data>> ELSE <<>>
    ELSE <<>>

RECURSIVE web_data(_)
web_data(entities) ==
    IF Len(entities) = 0 THEN <<>>
    ELSE web_classify(entities[1]) \o web_data(Tail(entities))

(* The code points of the entity identifiers the model uses. *)
CodePoints(s) ==
    CASE s = "B" -> <<66>>
      [] s = "a" -> <<97>>
      [] s = "aB" -> <<97, 66>>

(* Python's str <: lexicographic on code points, a proper prefix first. *)
RECURSIVE SeqLess(_, _)
SeqLess(a, b) ==
    IF Len(b) = 0 THEN FALSE
    ELSE IF Len(a) = 0 THEN TRUE
    ELSE IF a[1] # b[1] THEN a[1] < b[1]
    ELSE SeqLess(Tail(a), Tail(b))

StrLess(a, b) == SeqLess(CodePoints(a), CodePoints(b))

Columns(data) == UNION {DOMAIN data[k] : k \in 1..Len(data)}

(* df.sort_values("Entity ID"): pandas' default kind is "quicksort", which *)
(* pandas and numpy document as not stable, so the rows come out ascending *)
(* by key with rows of equal key in an order the library chooses.  The     *)
(* result is the set of the orders sort_values may return.                 *)
sort_values(data) ==
    LET n == Len(data)
        ascending(q) == \A i \in 1..n : \A j \in 1..n :
            i < j => ~StrLess(data[q[j]]["Entity ID"], data[q[i]]["Entity ID"])
    IN  {[k \in 1..n |-> data[q[k]]] : q \in {r \in Permutations(1..n) : ascending(r)}}

(* How a handler's frame computation ends: with a frame, or with the       *)
(* exception it raised.                                                    *)
Returned(frame) == [exception |-> "", frame |-> frame]

Raised(exception) == [exception |-> exception, frame |-> <<>>]

(* df.sort_values("Entity ID") as a call: pandas raises KeyError when the  *)
(* frame has no column of that name.                                       *)
sort_outcomes(data) ==
    IF "Entity ID" \in Columns(data)
    THEN {Returned(frame) : frame \in sort_values(data)}
    ELSE {Raised("KeyError")}

(* gtfs_parser.py lines 59-79: a frame is built and sorted only when       *)
(* records were collected; otherwise an empty DataFrame is returned.       *)
cli_frame_outcomes(data) ==
    IF Len(data) > 0
    THEN IF "Entity ID" \in Columns(data) THEN sort_outcomes(data) ELSE {Returned(data)}
    ELSE {Returned(<<>>)}

(* The web frame sorted without looking for the column first. *)
web_frame_outcomes_unguarded(data) == sort_outcomes(data)

(* app.py lines 83-86: pd.DataFrame(data), sorted if it has the column.    *)
web_frame_outcomes(data) ==
    IF "Entity ID" \in Columns(data) THEN sort_outcomes(data) ELSE {Returned(data)}

(* gtfs_parser.py parse_gtfs_realtime: the loop, then the frame.  The      *)
(* function returns the frame or lets the exception propagate.             *)
parse_gtfs_realtime ==
    /\ cli_pc = "start"
    /\ \E outcome \in cli_frame_outcomes(cli_data(feed.entity)) :
          /\ df' = outcome.frame
          /\ cli_pc' = IF outcome.exception = "" THEN "done" ELSE "raised"
    /\ UNCHANGED <<feed, web_pc, web_df, fs, req>>

(* webapp/app.py upload_file: the loop, then the frame.  An exception is   *)
(* caught by the handler and answered with status 500.                     *)
upload_file ==
    /\ web_pc = "start"
    /\ \E outcome \in web_frame_outcomes(web_data(feed.entity)) :
          /\ web_df' = outcome.frame
          /\ web_pc' = IF outcome.exception = "" THEN "done" ELSE "error"
    /\ UNCHANGED <<feed, cli_pc, df, fs, req>>

Next == parse_gtfs_realtime \/ upload_file

(***************************************************************************)
(* Decoded feeds                                                           *)
(***************************************************************************)
(* No call made yet; the temp directory and the requests to the web        *)
(* service play no part in the specifications of the in-memory paths.      *)
Start ==
    /\ cli_pc = "start" /\ df = <<>> /\ web_pc = "start" /\ web_df = <<>>
    /\ fs = <<>> /\ req = <<>>

EntityIds == {"B", "a", "aB"}

PayloadFields == {"trip_update", "vehicle", "alert"}

SampleTripUpdate ==
    [present |-> {},
     trip |-> [present |-> {"trip_id"}, trip_id |-> "T1", route_id |-> "",
               schedule_relationship |-> 0],
     stop_time_update |-> <<>>, timestamp |-> 0]

SampleVehiclePosition ==
    [DefaultVehiclePosition EXCEPT !.present = {"stop_id"}, !.stop_id = "S1"]

SampleAlert == [DefaultAlert EXCEPT !.cause = 3, !.effect = 1]

(* Entities with any combination of the three payload fields set. *)
FeedEntities ==
    {FeedEntity(id, p,
                IF "trip_update" \in p THEN SampleTripUpdate ELSE DefaultTripUpdate,
                IF "vehicle" \in p THEN SampleVehiclePosition ELSE DefaultVehiclePosition,
                IF "alert" \in p THEN SampleAlert ELSE DefaultAlert) :
        id \in EntityIds, p \in SUBSET PayloadFields}

Init ==
    /\ feed \in {[entity |-> es] : es \in SeqUpTo(FeedEntities, MaxEntities)}
    /\ Start

Spec == Init /\ [][Next]_vars

(* Trip-update entities: the trip descriptor and timestamp vary against a  *)
(* short stop list, and the stop list varies against a fixed descriptor.   *)
OneEntityFeeds(entities) == {[entity |-> <<e>>] : e \in entities}

TripDescriptors ==
    {[present |-> p \cup sr.present,
      trip_id |-> IF "trip_id" \in p THEN "T1" ELSE "",
      route_id |-> IF "route_id" \in p THEN "R1" ELSE "",
      schedule_relationship |-> sr.value] :
        p \in SUBSET {"trip_id", "route_id"},
        sr \in {[present |-> {}, value |-> 0]}
               \cup {[present |-> {"schedule_relationship"}, value |-> v] : v \in {0, 1, 3}}}

StopTimeEvents(t) ==
    {[has |-> FALSE, event |-> DefaultStopTimeEvent],
     [has |-> TRUE, event |-> DefaultStopTimeEvent],
     [has |-> TRUE, event |-> [present |-> {"time"}, time |-> t]]}

StopTimeUpdates ==
    {[present |-> (IF s THEN {"stop_id"} ELSE {})
                  \cup (IF a.has THEN {"arrival"} ELSE {})
                  \cup (IF d.has THEN {"departure"} ELSE {}),
      stop_id |-> IF s THEN "S1" ELSE "",
      arrival |-> a.event,
      departure |-> d.event] :
        s \in BOOLEAN, a \in StopTimeEvents(100), d \in StopTimeEvents(230)}

ScenarioStopTimeUpdate ==
    [present |-> {"stop_id", "arrival"}, stop_id |-> "S1",
     arrival |-> [present |-> {"time"}, time |-> 100],
     departure |-> DefaultStopTimeEvent]

ScenarioTripDescriptor ==
    [present |-> {"trip_id"}, trip_id |-> "T1", route_id |-> "",
     schedule_relationship |-> 0]

TripUpdates ==
    {[present |-> ts.present, trip |-> td, stop_time_update |-> stus,
      timestamp |-> ts.value] :
        td \in TripDescriptors,
        stus \in {<<>>, <<ScenarioStopTimeUpdate>>},
        ts \in {[present |-> {}, value |-> 0], [present |-> {"timestamp"}, value |-> 1700]}}
    \cup
    {[present |-> {}, trip |-> ScenarioTripDescriptor, stop_time_update |-> stus,
      timestamp |-> 0] :
        stus \in SeqUpTo(StopTimeUpdates, MaxStopUpdates)}

InitTripUpdate ==
    /\ feed \in OneEntityFeeds({FeedEntity("a", {"trip_update"}, tu, DefaultVehiclePosition,
                                           DefaultAlert) : tu \in TripUpdates})
    /\ Start

SpecTripUpdate == InitTripUpdate /\ [][Next]_vars

(* Vehicle-position entities: every combination of the optional blocks. *)
VehicleTripDescriptors ==
    {[has |-> FALSE, msg |-> DefaultTripDescriptor]}
    \cup {[has |-> TRUE,
           msg |-> [present |-> p,
                    trip_id |-> IF "trip_id" \in p THEN "T1" ELSE "",
                    route_id |-> IF "route_id" \in p THEN "R1" ELSE "",
                    schedule_relationship |-> 0]] :
             p \in SUBSET {"trip_id", "route_id"}}

VehicleDescriptors ==
    {[has |-> FALSE, msg |-> DefaultVehicleDescriptor]}
    \cup {[has |-> TRUE,
           msg |-> [present |-> p,
                    id |-> IF "id" \in p THEN "V1" ELSE "",
                    label |-> IF "label" \in p THEN "Bus 5" ELSE ""]] :
             p \in SUBSET {"id", "label"}}

(* Coordinates, bearing and speed in whole units; 0 is a legal reading. *)
Positions ==
    {[has |-> FALSE, msg |-> DefaultPosition]}
    \cup {[has |-> TRUE,
           msg |-> [present |-> {"latitude", "longitude"} \cup p,
                    latitude |-> c[1], longitude |-> c[2],
                    bearing |-> IF "bearing" \in p THEN 90 ELSE 0,
                    speed |-> IF "speed" \in p THEN 12 ELSE 0]] :
             c \in {<<0, 0>>, <<32, 34>>}, p \in SUBSET {"bearing", "speed"}}

VehiclePositions ==
    {[present |-> (IF t.has THEN {"trip"} ELSE {})
                  \cup (IF v.has THEN {"vehicle"} ELSE {})
                  \cup (IF pos.has THEN {"position"} ELSE {})
                  \cup o \cup cs.present,
      trip |-> t.msg, vehicle |-> v.msg, position |-> pos.msg,
      stop_id |-> IF "stop_id" \in o THEN "S1" ELSE "",
      current_status |-> cs.value,
      timestamp |-> IF "timestamp" \in o THEN 1700 ELSE 0] :
        t \in VehicleTripDescriptors, v \in VehicleDescriptors, pos \in Positions,
        o \in SUBSET {"stop_id", "timestamp"},
        cs \in {[present |-> {}, value |-> 2]}
               \cup {[present |-> {"current_status"}, value |-> x] : x \in {0, 1, 2}}}

InitVehicle ==
    /\ feed \in OneEntityFeeds({FeedEntity("a", {"vehicle"}, DefaultTripUpdate, vp,
                                           DefaultAlert) : vp \in VehiclePositions})
    /\ Start

SpecVehicle == InitVehicle /\ [][Next]_vars

(* Alert entities, the list columns: active periods and informed entities. *)
ActivePeriods ==
    {[present |-> p,
      start |-> IF "start" \in p THEN 100 ELSE 0,
      end |-> IF "end" \in p THEN 200 ELSE 0] : p \in SUBSET {"start", "end"}}

InformedEntitySelectors ==
    {[present |-> p,
      route_id |-> IF "route_id" \in p THEN "R1" ELSE "",
      stop_id |-> IF "stop_id" \in p THEN "S1" ELSE "",
      agency_id |-> IF "agency_id" \in p THEN "A1" ELSE ""] :
        p \in SUBSET {"route_id", "stop_id", "agency_id"}}

ScenarioActivePeriod == [present |-> {"start", "end"}, start |-> 100, end |-> 200]

ScenarioInformedEntity ==
    [present |-> {"route_id"}, route_id |-> "R1", stop_id |-> "", agency_id |-> ""]

ListAlerts ==
    {[DefaultAlert EXCEPT !.active_period = aps, !.informed_entity = ies,
                          !.cause = ce[1], !.effect = ce[2]] :
        aps \in SeqUpTo(ActivePeriods, MaxPeriods),
        ies \in {<<>>, <<ScenarioInformedEntity>>},
        ce \in {<<1, 8>>, <<3, 1>>}}
    \cup
    {[DefaultAlert EXCEPT !.active_period = aps, !.informed_entity = ies,
                          !.cause = ce[1], !.effect = ce[2]] :
        aps \in {<<>>, <<ScenarioActivePeriod>>},
        ies \in SeqUpTo(InformedEntitySelectors, MaxInformed),
        ce \in {<<1, 8>>, <<3, 1>>}}

InitAlertLists ==
    /\ feed \in OneEntityFeeds({FeedEntity("a", {"alert"}, DefaultTripUpdate,
                                           DefaultVehiclePosition, al) : al \in ListAlerts})
    /\ Start

SpecAlertLists == InitAlertLists /\ [][Next]_vars

(* Alert entities, the text columns: header and description translations. *)
Translations ==
    {[language |-> "he", text |-> ""],
     [language |-> "he", text |-> "Shalom"],
     [language |-> "he", text |-> "Toda"],
     [language |-> "en", text |-> "Hi"]}

TranslationLists == SeqUpTo(Translations, MaxTranslations)

TextAlerts ==
    {[DefaultAlert EXCEPT !.header_text = [translation |-> h],
                          !.description_text = [translation |-> d]] :
        h \in TranslationLists, d \in TranslationLists}

InitAlertText ==
    /\ feed \in OneEntityFeeds({FeedEntity("a", {"alert"}, DefaultTripUpdate,
                                           DefaultVehiclePosition, al) : al \in TextAlerts})
    /\ Start

SpecAlertText == InitAlertText /\ [][Next]_vars

(***************************************************************************)
(* Properties                                                              *)
(***************************************************************************)
HasPayload(entity) == entity.present \cap PayloadFields # {}

RecordsWithId(frame, id) ==
    Cardinality({k \in 1..Len(frame) : frame[k]["Entity ID"] = id})

ClassifiedWithId(id) ==
    Cardinality({k \in 1..Len(feed.entity) :
                    feed.entity[k].id = id /\ HasPayload(feed.entity[k])})

(* C1: on both paths the output holds, for every identifier, as many       *)
(* records as the feed has entities with that identifier and at least one  *)
(* of trip_update, vehicle, alert populated: one record per such entity    *)
(* (never two, also when several payloads are populated), none for an      *)
(* entity with no payload, and the entities after a dropped one are still  *)
(* processed.                                                              *)
C1_OneRecordPerClassifiedEntity ==
    /\ cli_pc = "done" =>
         /\ \A id \in EntityIds : RecordsWithId(df, id) = ClassifiedWithId(id)
         /\ Len(df) = Cardinality({k \in 1..Len(feed.entity) : HasPayload(feed.entity[k])})
    /\ web_pc = "done" =>
         /\ \A id \in EntityIds : RecordsWithId(web_df, id) = ClassifiedWithId(id)
         /\ Len(web_df) = Cardinality({k \in 1..Len(feed.entity) : HasPayload(feed.entity[k])})

(* A feed whose first entity has no payload and whose second has two: both *)
(* paths end with the one record of the second entity.                     *)
C1_Witness ==
    /\ cli_pc = "done" /\ web_pc = "done"
    /\ Len(feed.entity) = 2
    /\ ~HasPayload(feed.entity[1])
    /\ Cardinality(feed.entity[2].present) >= 2
    /\ feed.entity[1].id # feed.entity[2].id
    /\ Len(df) = 1 /\ df[1]["Entity ID"] = feed.entity[2].id
    /\ Len(web_df) = 1 /\ web_df[1]["Entity ID"] = feed.entity[2].id

(* The stable ascending sort of a list of records by "Entity ID":          *)
(* insertion after every record whose key is not greater.                  *)
RECURSIVE InsertStable(_, _)
InsertStable(sorted, rec) ==
    IF Len(sorted) = 0 THEN <<rec>>
    ELSE IF StrLess(rec["Entity ID"], sorted[1]["Entity ID"]) THEN <<rec>> \o sorted
    ELSE <<sorted[1]>> \o InsertStable(Tail(sorted), rec)

RECURSIVE StableSorted(_)
StableSorted(data) ==
    IF Len(data) = 0 THEN <<>>
    ELSE InsertStable(StableSorted(SubSeq(data, 1, Len(data) - 1)), data[Len(data)])

Ascending(frame) ==
    \A i \in 1..Len(frame) : \A j \in 1..Len(frame) :
        i < j => ~StrLess(frame[j]["Entity ID"], frame[i]["Entity ID"])

(* C2: on both paths the output is the collected records in ascending      *)
(* order of "Entity ID" under code-point comparison, records of equal      *)
(* "Entity ID" keeping the relative order of their entities in the feed.   *)
C2_StableAscendingSort ==
    /\ cli_pc = "done" => df = StableSorted(cli_data(feed.entity))
    /\ web_pc = "done" => web_df = StableSorted(web_data(feed.entity))

(* In the one-entity specifications: the entity, and a statement about the *)
(* record each path made of it.                                            *)
TheEntity == feed.entity[1]

OnBothPaths(P(_)) ==
    /\ cli_pc = "done" => Len(df) = 1 /\ P(df[1])
    /\ web_pc = "done" => Len(web_df) = 1 /\ P(web_df[1])

BothDone == cli_pc = "done" /\ web_pc = "done" /\ Len(df) = 1 /\ Len(web_df) = 1

Least(S) == CHOOSE k \in S : \A j \in S : k <= j

(* The positions of the entries tagged "he" with non-empty text. *)
HebrewEntries(list) ==
    {k \in 1..Len(list) : list[k].language = "he" /\ list[k].text # ""}

HeaderList == TheEntity.alert.header_text.translation

DescriptionList == TheEntity.alert.description_text.translation

(* C3: when the header (description) translations hold an entry tagged     *)
(* "he" with non-empty text, "Header Text" ("Description Text") is the     *)
(* text of the first such entry in list order, whatever precedes it.       *)
C3_FirstHebrewTextSelected ==
    LET holds(rec) ==
            /\ HebrewEntries(HeaderList) # {} =>
                 rec["Header Text"] = HeaderList[Least(HebrewEntries(HeaderList))].text
            /\ HebrewEntries(DescriptionList) # {} =>
                 rec["Description Text"] =
                     DescriptionList[Least(HebrewEntries(DescriptionList))].text
    IN  OnBothPaths(holds)

(* The header's first usable Hebrew entry is third, after an empty Hebrew  *)
(* entry and an English one; the description has two usable Hebrew entries.*)
C3_Witness ==
    /\ BothDone
    /\ HeaderList = <<[language |-> "he", text |-> ""], [language |-> "en", text |-> "Hi"],
                      [language |-> "he", text |-> "Toda"]>>
    /\ DescriptionList = <<[language |-> "he", text |-> "Shalom"],
                           [language |-> "he", text |-> "Toda"]>>
    /\ df[1]["Header Text"] = "Toda" /\ web_df[1]["Header Text"] = "Toda"
    /\ df[1]["Description Text"] = "Shalom" /\ web_df[1]["Description Text"] = "Shalom"

(* C4: when no header (description) translation is both tagged "he" and    *)
(* non-empty, the column is the text of the first entry of the list,       *)
(* whatever its language, and the empty string when the list is empty.     *)
C4_FallbackToFirstEntry ==
    LET holds(rec) ==
            /\ HebrewEntries(HeaderList) = {} =>
                 rec["Header Text"] =
                     IF Len(HeaderList) = 0 THEN "" ELSE HeaderList[1].text
            /\ HebrewEntries(DescriptionList) = {} =>
                 rec["Description Text"] =
                     IF Len(DescriptionList) = 0 THEN "" ELSE DescriptionList[1].text
    IN  OnBothPaths(holds)

(* The header's only Hebrew entry is empty and comes first, before a       *)
(* non-empty English one: the column is the first entry's empty text. The  *)
(* description starts with the English entry.                              *)
C4_Witness ==
    /\ BothDone
    /\ HeaderList = <<[language |-> "he", text |-> ""], [language |-> "en", text |-> "Hi"]>>
    /\ DescriptionList = <<[language |-> "en", text |-> "Hi"], [language |-> "he", text |-> ""]>>
    /\ df[1]["Header Text"] = "" /\ web_df[1]["Header Text"] = ""
    /\ df[1]["Description Text"] = "Hi" /\ web_df[1]["Description Text"] = "Hi"

(* C5: a trip update without schedule_relationship has "Schedule           *)
(* Relationship" equal to "SCHEDULED"; with the field set the column is    *)
(* the enum name of its value.                                             *)
C5_ScheduleRelationshipDefault ==
    LET trip == TheEntity.trip_update.trip
        holds(rec) ==
            IF "schedule_relationship" \notin trip.present
            THEN rec["Schedule Relationship"] = "SCHEDULED"
            ELSE rec["Schedule Relationship"] =
                     <<"SCHEDULED", "ADDED", "UNSCHEDULED", "CANCELED">>
                         [trip.schedule_relationship + 1]
    IN  OnBothPaths(holds)

C5_Witness ==
    /\ BothDone
    /\ "schedule_relationship" \notin TheEntity.trip_update.trip.present
    /\ df[1]["Schedule Relationship"] = "SCHEDULED"
    /\ web_df[1]["Schedule Relationship"] = "SCHEDULED"

(* An optional number or string rendered as text: empty when unset. *)
OptionalInt(msg, name) == IF name \in msg.present THEN IntToStr(msg[name]) ELSE ""

OptionalStr(msg, name) == IF name \in msg.present THEN msg[name] ELSE ""

(* C6: "Active Periods" is the active periods in feed order, each          *)
(* "{start}-{end}" with an unset start or end rendered as the empty        *)
(* string, joined with "; "; no period gives the empty string.             *)
C6_ActivePeriodsEmptyForMissingBound ==
    LET periods == TheEntity.alert.active_period
        expected == Join("; ", [k \in 1..Len(periods) |->
                        OptionalInt(periods[k], "start") \o "-"
                        \o OptionalInt(periods[k], "end")])
        holds(rec) == rec["Active Periods"] = expected
    IN  OnBothPaths(holds)

(* The time of a stop-time event: empty when the block or its time is unset.*)
EventTime(stop_update, name) ==
    IF name \in stop_update.present
    THEN OptionalInt(stop_update[name], "time") ELSE ""

(* C7: "Stop Updates" is the stop-time updates in feed order, each         *)
(* "{stop_id}:{arrival}-{departure}" with stop_id, arrival time and        *)
(* departure time each empty when unset (also when the arrival or          *)
(* departure block is set without a time), joined with "; "; no update     *)
(* gives the empty string, and stop "S1" with arrival 100 and no departure *)
(* gives "S1:100-".                                                        *)
C7_StopUpdatesRendered ==
    LET updates == TheEntity.trip_update.stop_time_update
        expected == Join("; ", [k \in 1..Len(updates) |->
                        OptionalStr(updates[k], "stop_id") \o ":"
                        \o EventTime(updates[k], "arrival") \o "-"
                        \o EventTime(updates[k], "departure")])
        holds(rec) ==
            /\ rec["Stop Updates"] = expected
            /\ updates = <<>> => rec["Stop Updates"] = ""
            /\ updates = <<ScenarioStopTimeUpdate>> => rec["Stop Updates"] = "S1:100-"
    IN  OnBothPaths(holds)

(* Two updates: an arrival block without a time and no stop_id, then the   *)
(* scenario's update.                                                      *)
C7_Witness ==
    /\ BothDone
    /\ TheEntity.trip_update.stop_time_update =
         <<[present |-> {"arrival", "departure"}, stop_id |-> "",
            arrival |-> DefaultStopTimeEvent,
            departure |-> [present |-> {"time"}, time |-> 230]],
           ScenarioStopTimeUpdate>>
    /\ df[1]["Stop Updates"] = ":-230; S1:100-"
    /\ web_df[1]["Stop Updates"] = ":-230; S1:100-"

InformedKeys == <<"route_id", "stop_id", "agency_id">>

(* The "key=value" parts of one informed entity: its populated keys, in    *)
(* the order route_id, stop_id, agency_id.                                 *)
RECURSIVE PopulatedParts(_, _)
PopulatedParts(ie, keys) ==
    IF Len(keys) = 0 THEN <<>>
    ELSE (IF keys[1] \in ie.present THEN <<keys[1] \o "=" \o ie[keys[1]]>> ELSE <<>>)
         \o PopulatedParts(ie, Tail(keys))

(* C8: "Informed Entities" is the informed entities in feed order, each    *)
(* rendered as its populated sub-fields among route_id, stop_id, agency_id *)
(* as "key=value" in that order joined with " | ", the entities joined     *)
(* with "; "; no informed entity gives the empty string.                   *)
C8_InformedEntitiesRendered ==
    LET selectors == TheEntity.alert.informed_entity
        expected == Join("; ", [k \in 1..Len(selectors) |->
                        Join(" | ", PopulatedParts(selectors[k], InformedKeys))])
        holds(rec) ==
            /\ rec["Informed Entities"] = expected
            /\ selectors = <<>> => rec["Informed Entities"] = ""
    IN  OnBothPaths(holds)

C8_Witness ==
    /\ BothDone
    /\ Len(TheEntity.alert.informed_entity) = 2
    /\ TheEntity.alert.informed_entity[1].present = {"route_id", "agency_id"}
    /\ TheEntity.alert.informed_entity[2].present = {"stop_id"}
    /\ df[1]["Informed Entities"] = "route_id=R1 | agency_id=A1; stop_id=S1"
    /\ web_df[1]["Informed Entities"] = "route_id=R1 | agency_id=A1; stop_id=S1"

(* C9: "Latitude" and "Longitude" hold the position's coordinates exactly  *)
(* when a position block is present and are both the empty string exactly  *)
(* when it is not; "Bearing" and "Speed" are each the empty string when    *)
(* unset, also beside populated coordinates.                               *)
C9_PositionColumns ==
    LET vehicle == TheEntity.vehicle
        has_position == "position" \in vehicle.present
        holds(rec) ==
            /\ has_position =>
                 /\ rec["Latitude"] = PyFloat(vehicle.position.latitude)
                 /\ rec["Longitude"] = PyFloat(vehicle.position.longitude)
            /\ (rec["Latitude"] = PyStr("")) = ~has_position
            /\ (rec["Longitude"] = PyStr("")) = ~has_position
            /\ rec["Bearing"] =
                 IF has_position /\ "bearing" \in vehicle.position.present
                 THEN PyFloat(vehicle.position.bearing) ELSE PyStr("")
            /\ rec["Speed"] =
                 IF has_position /\ "speed" \in vehicle.position.present
                 THEN PyFloat(vehicle.position.speed) ELSE PyStr("")
    IN  OnBothPaths(holds)

(* A position at latitude 0, longitude 0 with a speed and no bearing. *)
C9_Witness ==
    /\ BothDone
    /\ "position" \in TheEntity.vehicle.present
    /\ TheEntity.vehicle.position.present = {"latitude", "longitude", "speed"}
    /\ df[1]["Latitude"] = PyFloat(0) /\ df[1]["Longitude"] = PyFloat(0)
    /\ df[1]["Bearing"] = PyStr("") /\ df[1]["Speed"] = PyFloat(12)
    /\ web_df[1]["Latitude"] = PyFloat(0) /\ web_df[1]["Bearing"] = PyStr("")

(* C10: "Trip ID", "Route ID", "Vehicle ID" and "Vehicle Label" are the    *)
(* sub-field's value when the parent descriptor and the sub-field are both *)
(* present and the empty string otherwise; "Current Stop", "Current        *)
(* Status" and "Timestamp" are the empty string when their field is unset, *)
(* "Current Status" having no default name.                                *)
C10_DescriptorColumns ==
    LET vehicle == TheEntity.vehicle
        sub(parent, name) ==
            IF parent \in vehicle.present
            THEN OptionalStr(vehicle[parent], name) ELSE ""
        holds(rec) ==
            /\ rec["Trip ID"] = sub("trip", "trip_id")
            /\ rec["Route ID"] = sub("trip", "route_id")
            /\ rec["Vehicle ID"] = sub("vehicle", "id")
            /\ rec["Vehicle Label"] = sub("vehicle", "label")
            /\ rec["Current Stop"] = OptionalStr(vehicle, "stop_id")
            /\ rec["Current Status"] =
                 IF "current_status" \in vehicle.present
                 THEN <<"INCOMING_AT", "STOPPED_AT", "IN_TRANSIT_TO">>
                          [vehicle.current_status + 1]
                 ELSE ""
            /\ rec["Timestamp"] =
                 IF "timestamp" \in vehicle.present
                 THEN PyInt(vehicle.timestamp) ELSE PyStr("")
    IN  OnBothPaths(holds)

(* A vehicle descriptor with a label and no id, no trip descriptor, and no *)
(* current_status.                                                         *)
C10_Witness ==
    /\ BothDone
    /\ "trip" \notin TheEntity.vehicle.present
    /\ "vehicle" \in TheEntity.vehicle.present
    /\ TheEntity.vehicle.vehicle.present = {"label"}
    /\ "current_status" \notin TheEntity.vehicle.present
    /\ df[1]["Trip ID"] = "" /\ df[1]["Route ID"] = ""
    /\ df[1]["Vehicle ID"] = "" /\ df[1]["Vehicle Label"] = "Bus 5"
    /\ df[1]["Current Status"] = "" /\ web_df[1]["Current Status"] = ""
    /\ web_df[1]["Vehicle Label"] = "Bus 5"

(***************************************************************************)
(* Column keys                                                             *)
(***************************************************************************)
(* Feeds of every family above: one specification in which the optional    *)
(* fields of all three kinds vary.                                         *)
InitRecords ==
    Init \/ InitTripUpdate \/ InitVehicle \/ InitAlertLists \/ InitAlertText

SpecRecords == InitRecords /\ [][Next]_vars

(* The column keys of the specification, in the spelling the code gives    *)
(* them.                                                                   *)
TripUpdateKeys ==
    {"Entity ID", "Trip ID", "Route ID", "Schedule Relationship", "Stop Updates",
     "Timestamp"}

VehicleKeys ==
    {"Entity ID", "Trip ID", "Route ID", "Vehicle ID", "Vehicle Label", "Latitude",
     "Longitude", "Bearing", "Speed", "Current Stop", "Current Status", "Timestamp"}

AlertKeys ==
    {"Entity ID", "Active Periods", "Informed Entities", "Cause", "Effect",
     "Header Text", "Description Text"}

KeysOfKind(kind) ==
    CASE kind = "trip_update" -> TripUpdateKeys
      [] kind = "vehicle" -> VehicleKeys
      [] kind = "alert" -> AlertKeys

(* The payload field that a value of the CLI's Type column names. *)
KindOfType(type) ==
    CASE type = "trip_update" -> "trip_update"
      [] type = "vehicle_position" -> "vehicle"
      [] type = "alert" -> "alert"

(* The kind an entity is given by the order in which a loop tests the      *)
(* payload fields.                                                         *)
FirstPresent(entity, order) ==
    order[Least({k \in 1..Len(order) : HasField(entity, order[k])})]

CliOrder == <<"trip_update", "vehicle", "alert">>

WebOrder == <<"alert", "trip_update", "vehicle">>

Classified(entities) == SelectSeq(entities, HasPayload)

(* The records of a frame carry, record by record, the key sets of the     *)
(* kinds of the classified entities, plus the keys in extra.               *)
FrameKeysMatch(frame, order, extra) ==
    \E q \in Permutations(1..Len(frame)) :
        \A k \in 1..Len(frame) :
            LET entity == Classified(feed.entity)[q[k]]
            IN  /\ frame[k]["Entity ID"] = entity.id
                /\ DOMAIN frame[k] = KeysOfKind(FirstPresent(entity, order)) \cup extra

(* C11 as stated: on both paths every record has exactly the column keys   *)
(* listed for its kind, whichever optional fields are present.             *)
C11_ExactKeysOnBothPaths ==
    /\ cli_pc = "done" =>
         /\ Len(df) = Len(Classified(feed.entity))
         /\ FrameKeysMatch(df, CliOrder, {})
    /\ web_pc = "done" =>
         /\ Len(web_df) = Len(Classified(feed.entity))
         /\ FrameKeysMatch(web_df, WebOrder, {})

(* C11 amended: every record of a kind has the same fixed key set,         *)
(* whichever optional fields are present: on the web path exactly the keys *)
(* listed for the kind, on the CLI path those keys and the key Type, whose *)
(* value names the kind.                                                   *)
C11_FixedKeysPerKind ==
    /\ cli_pc = "done" =>
         /\ Len(df) = Len(Classified(feed.entity))
         /\ FrameKeysMatch(df, CliOrder, {"Type"})
         /\ \A k \in 1..Len(df) :
                DOMAIN df[k] = KeysOfKind(KindOfType(df[k]["Type"])) \cup {"Type"}
    /\ web_pc = "done" =>
         /\ Len(web_df) = Len(Classified(feed.entity))
         /\ FrameKeysMatch(web_df, WebOrder, {})

(* A trip update with no optional field set at all has gone through both   *)
(* paths and has its six keys (and Type on the CLI path).                  *)
C11_Witness ==
    /\ BothDone
    /\ Len(feed.entity) = 1
    /\ feed.entity[1].present = {"trip_update"}
    /\ feed.entity[1].trip_update.present = {}
    /\ feed.entity[1].trip_update.trip.present = {}
    /\ Len(df) = 1 /\ DOMAIN df[1] = TripUpdateKeys \cup {"Type"}
    /\ Len(web_df) = 1 /\ DOMAIN web_df[1] = TripUpdateKeys

(***************************************************************************)
(* Feeds without records                                                   *)
(***************************************************************************)
NoEntityClassified == \A k \in 1..Len(feed.entity) : ~HasPayload(feed.entity[k])

(* C12: a feed with zero entities, or with no entity that has a payload,   *)
(* never ends a path in an error (the CLI call does not raise, the web     *)
(* handler does not answer 500), and the path ends with the empty record   *)
(* sequence.                                                               *)
C12_EmptyFeedIsNormal ==
    NoEntityClassified =>
        /\ cli_pc \in {"start", "done"}
        /\ cli_pc = "done" => df = <<>>
        /\ web_pc \in {"start", "done"}
        /\ web_pc = "done" => web_df = <<>>

(* A feed of entities none of which has a payload has gone through both    *)
(* paths, and both ended normally with no record.                          *)
C12_Witness ==
    /\ Len(feed.entity) > 0
    /\ NoEntityClassified
    /\ cli_pc = "done" /\ df = <<>>
    /\ web_pc = "done" /\ web_df = <<>>

(***************************************************************************)
(* The two paths side by side                                              *)
(***************************************************************************)
(* A CLI record without its Type column. *)
WithoutType(record) == [key \in DOMAIN record \ {"Type"} |-> record[key]]

(* Two frames hold the same records in the same order, the order among     *)
(* records of equal "Entity ID" left open (it is the sort's).              *)
SameRecords(cli_frame, web_frame) ==
    /\ Len(cli_frame) = Len(web_frame)
    /\ \E q \in Permutations(1..Len(cli_frame)) :
          \A k \in 1..Len(cli_frame) :
              /\ cli_frame[q[k]]["Entity ID"] = cli_frame[k]["Entity ID"]
              /\ WithoutType(cli_frame[q[k]]) = web_frame[k]

(* C14: on every decoded feed the CLI path and the web path end with the   *)
(* same records in the same order: every entity is classified to the same  *)
(* kind on both paths (so its two records have the same columns, Type      *)
(* aside) and the shared columns hold the same values.                     *)
C14_PathsEquivalent ==
    BothDone => SameRecords(df, web_df)

(***************************************************************************)
(* webapp/app.py: the handlers over the temp directory                     *)
(***************************************************************************)
(* File names and paths are sequences of characters. *)
EndsWith(s, suffix) ==
    /\ Len(s) >= Len(suffix)
    /\ SubSeq(s, Len(s) - Len(suffix) + 1, Len(s)) = suffix

(* str.rfind, counting from 1, 0 when the character does not occur. *)
RFind(s, ch) ==
    LET hits == {k \in 1..Len(s) : s[k] = ch}
    IN  IF hits = {} THEN 0 ELSE CHOOSE k \in hits : \A j \in hits : j <= k

(* os.path.splitext: the extension starts at the last dot of the last path *)
(* component, and leading dots of that component start no extension.       *)
splitext(p) ==
    LET sepIndex == RFind(p, "/")
        dotIndex == RFind(p, ".")
    IN  IF dotIndex > sepIndex /\ \E k \in (sepIndex + 1)..(dotIndex - 1) : p[k] # "."
        THEN <<SubSeq(p, 1, dotIndex - 1), SubSeq(p, dotIndex, Len(p))>>
        ELSE <<p, <<>>>>

(* os.path.join of two components. *)
join(a, b) ==
    IF Len(b) > 0 /\ b[1] = "/" THEN b
    ELSE IF EndsWith(a, <<"/">>) THEN a \o b
    ELSE a \o <<"/">> \o b

(* tempfile.gettempdir(): one directory for every request. *)
temp_dir == <<"/", "t">>

DotPb == <<".", "p", "b">>

DotCsv == <<".", "c", "s", "v">>

DotJson == <<".", "j", "s", "o", "n">>

temp_path(filename) == join(temp_dir, filename)

csv_path(filename) == join(temp_dir, splitext(filename)[1] \o DotCsv)

json_path(filename) == join(temp_dir, splitext(filename)[1] \o DotJson)

(* The bytes of an upload: the wire form of a feed, or bytes that are not  *)
(* the wire form of any FeedMessage.                                       *)
Encoded(message) == [valid |-> TRUE, feed |-> message]

Malformed == [valid |-> FALSE, feed |-> [entity |-> <<>>]]

NoBytes == [valid |-> FALSE, feed |-> [entity |-> <<>>]]

(* A file of the temp directory: the upload's bytes, or the frame written  *)
(* by to_csv / to_json; writer is the request whose write made it.         *)
UploadedFile(r, bytes) == [writer |-> r, kind |-> "pb", bytes |-> bytes, frame |-> <<>>]

ExportedFile(r, kind, frame) == [writer |-> r, kind |-> kind, bytes |-> NoBytes, frame |-> frame]

NoFile == [writer |-> "", kind |-> "", bytes |-> NoBytes, frame |-> <<>>]

exists(path) == path \in DOMAIN fs

write(path, file) == (path :> file) @@ fs

remove(path) == [q \in DOMAIN fs \ {path} |-> fs[q]]

(* The requests in flight. *)
RequestIds == {"r1", "r2"}

UploadRequest(has_file, filename, content) ==
    [handler |-> "upload", has_file |-> has_file, filename |-> filename,
     content |-> content, format_type |-> "", pc |-> "new", status |-> 0,
     parsed |-> NoBytes, frame |-> <<>>, body |-> NoFile]

DownloadRequest(format_type, filename) ==
    [handler |-> "download", has_file |-> FALSE, filename |-> filename,
     content |-> NoBytes, format_type |-> format_type, pc |-> "new", status |-> 0,
     parsed |-> NoBytes, frame |-> <<>>, body |-> NoFile]

(* The handler returns: the request ends with a status code. *)
respond(r, status) == [req EXCEPT ![r].pc = "done", ![r].status = status]

(* upload_file lines 18-27: the three checks made before anything else. *)
upload_rejected(request) ==
    \/ ~request.has_file
    \/ request.filename = <<>>
    \/ ~EndsWith(request.filename, DotPb)

upload_reject(r) ==
    /\ req[r].handler = "upload" /\ req[r].pc = "new"
    /\ upload_rejected(req[r])
    /\ req' = respond(r, 400)
    /\ UNCHANGED <<feed, cli_pc, df, web_pc, web_df, fs>>

(* lines 31-33: file.save(temp_path), over whatever is at that path. *)
upload_save(r) ==
    /\ req[r].handler = "upload" /\ req[r].pc = "new"
    /\ ~upload_rejected(req[r])
    /\ fs' = write(temp_path(req[r].filename), UploadedFile(r, req[r].content))
    /\ req' = [req EXCEPT ![r].pc = "saved"]
    /\ UNCHANGED <<feed, cli_pc, df, web_pc, web_df>>

(* lines 36-86: open(temp_path), ParseFromString of what is read, the loop *)
(* and the frame.  A missing file (FileNotFoundError), bytes that do not   *)
(* decode (DecodeError) and an exception of the frame all end in the       *)
(* except clause of lines 111-112.                                         *)
upload_parse(r) ==
    /\ req[r].handler = "upload" /\ req[r].pc = "saved"
    /\ LET path == temp_path(req[r].filename)
       IN  IF ~exists(path) \/ ~fs[path].bytes.valid
           THEN req' = respond(r, 500)
           ELSE \E outcome \in web_frame_outcomes(web_data(fs[path].bytes.feed.entity)) :
                   IF outcome.exception # ""
                   THEN req' = respond(r, 500)
                   ELSE req' = [req EXCEPT ![r].pc = "parsed",
                                           ![r].parsed = fs[path].bytes,
                                           ![r].frame = outcome.frame]
    /\ UNCHANGED <<feed, cli_pc, df, web_pc, web_df, fs>>

(* lines 89-90: df.to_csv(csv_path). *)
upload_to_csv(r) ==
    /\ req[r].handler = "upload" /\ req[r].pc = "parsed"
    /\ fs' = write(csv_path(req[r].filename), ExportedFile(r, "csv", req[r].frame))
    /\ req' = [req EXCEPT ![r].pc = "csv"]
    /\ UNCHANGED <<feed, cli_pc, df, web_pc, web_df>>

(* lines 93-94: df.to_json(json_path). *)
upload_to_json(r) ==
    /\ req[r].handler = "upload" /\ req[r].pc = "csv"
    /\ fs' = write(json_path(req[r].filename), ExportedFile(r, "json", req[r].frame))
    /\ req' = [req EXCEPT ![r].pc = "json"]
    /\ UNCHANGED <<feed, cli_pc, df, web_pc, web_df>>

(* lines 97-112: os.remove(temp_path) and the success answer, or           *)
(* FileNotFoundError and the except clause.                                *)
upload_remove(r) ==
    /\ req[r].handler = "upload" /\ req[r].pc = "json"
    /\ LET path == temp_path(req[r].filename)
       IN  IF exists(path)
           THEN fs' = remove(path) /\ req' = respond(r, 200)
           ELSE fs' = fs /\ req' = respond(r, 500)
    /\ UNCHANGED <<feed, cli_pc, df, web_pc, web_df>>

(* download_file lines 114-139 as a function of the directory: the status  *)
(* and, for 200, the file sent.                                            *)
download_response(format_type, filename) ==
    LET file_path == IF format_type = "csv" THEN join(temp_dir, filename \o DotCsv)
                     ELSE join(temp_dir, filename \o DotJson)
    IN  IF filename = <<>> THEN [status |-> 400, body |-> NoFile]
        ELSE IF format_type \notin {"csv", "json"} THEN [status |-> 400, body |-> NoFile]
        ELSE IF ~exists(file_path) THEN [status |-> 404, body |-> NoFile]
        ELSE [status |-> 200, body |-> fs[file_path]]

download_file(r) ==
    /\ req[r].handler = "download" /\ req[r].pc = "new"
    /\ LET response == download_response(req[r].format_type, req[r].filename)
       IN  req' = [req EXCEPT ![r].pc = "done", ![r].status = response.status,
                              ![r].body = response.body]
    /\ UNCHANGED <<feed, cli_pc, df, web_pc, web_df, fs>>

NextWeb ==
    \E r \in RequestIds :
        \/ upload_reject(r)
        \/ upload_save(r)
        \/ upload_parse(r)
        \/ upload_to_csv(r)
        \/ upload_to_json(r)
        \/ upload_remove(r)
        \/ download_file(r)

(* The requests the clients send: uploads with and without a file part,    *)
(* with an empty name, a name that does not end in ".pb", the names "x.pb" *)
(* and ".pb", carrying one of two feeds or bytes that are no feed; and     *)
(* downloads of each format for the empty name and the names "x" and       *)
(* ".pb".                                                                  *)
UploadedFeeds ==
    {[entity |-> <<FeedEntity("a", {"trip_update"}, SampleTripUpdate,
                              DefaultVehiclePosition, DefaultAlert)>>],
     [entity |-> <<FeedEntity("B", {"alert"}, DefaultTripUpdate,
                              DefaultVehiclePosition, SampleAlert)>>]}

UploadContents == {Encoded(message) : message \in UploadedFeeds} \cup {Malformed}

PbNames == {<<"x">> \o DotPb, DotPb}

UploadRequests ==
    {UploadRequest(FALSE, <<>>, NoBytes),
     UploadRequest(TRUE, <<>>, Malformed),
     UploadRequest(TRUE, <<"x", ".", "t", "x", "t">>, Malformed)}
    \cup {UploadRequest(TRUE, filename, content) :
             filename \in PbNames, content \in UploadContents}

DownloadRequests ==
    {DownloadRequest(format_type, filename) :
        format_type \in {"csv", "json", "xml"}, filename \in {<<>>, <<"x">>, DotPb}}

InitWeb ==
    /\ feed = [entity |-> <<>>]
    /\ cli_pc = "start" /\ df = <<>> /\ web_pc = "start" /\ web_df = <<>>
    /\ fs = <<>>
    /\ req \in [RequestIds -> UploadRequests \cup DownloadRequests]

SpecWeb == InitWeb /\ [][NextWeb]_vars

(***************************************************************************)
(* Properties of the web service                                           *)
(***************************************************************************)
Uploads == {r \in RequestIds : req[r].handler = "upload"}

Downloads == {r \in RequestIds : req[r].handler = "download"}

Answered(r, status) == req[r].pc = "done" /\ req[r].status = status

(* The frame the web path makes of an uploaded feed. *)
FramesOf(bytes) ==
    {outcome.frame : outcome \in web_frame_outcomes(web_data(bytes.feed.entity))}

(* C13: requests share nothing.  Under every interleaving of the steps of  *)
(* two requests (a) the feed a request parsed is the bytes it uploaded,    *)
(* (b) no request fails because of the other: an upload with an accepted   *)
(* name and decodable bytes is not answered 500, and (c) once every        *)
(* request is answered, the CSV and the JSON left for the name of a        *)
(* successful upload hold the records of one and the same uploaded feed.   *)
C13_RequestsShareNothing ==
    /\ \A r \in Uploads :
          req[r].pc \in {"parsed", "csv", "json"} \/ Answered(r, 200)
              => req[r].parsed = req[r].content
    /\ \A r \in Uploads :
          Answered(r, 500) => ~req[r].content.valid
    /\ (\A r \in RequestIds : req[r].pc = "done") =>
          \A r \in Uploads :
              Answered(r, 200) =>
                  \E other \in Uploads :
                      /\ req[other].content.valid
                      /\ fs[csv_path(req[r].filename)].frame \in FramesOf(req[other].content)
                      /\ fs[json_path(req[r].filename)].frame
                            = fs[csv_path(req[r].filename)].frame

(* The N of an uploaded file name N.pb. *)
StemOf(filename) == SubSeq(filename, 1, Len(filename) - Len(DotPb))

ExportOf(stem, extension) == join(temp_dir, stem \o extension)

(* After an upload of N.pb was answered with success, the copy it saved is *)
(* gone, N.csv and N.json are in the temp directory, and a download of     *)
(* either format with filename N is answered with the file.                *)
UploadLeavesExports ==
    \A r \in Uploads :
        Answered(r, 200) =>
            LET stem == StemOf(req[r].filename)
                copy == ExportOf(stem, DotPb)
            IN  /\ ~(exists(copy) /\ fs[copy].writer = r)
                /\ exists(ExportOf(stem, DotCsv))
                /\ exists(ExportOf(stem, DotJson))
                /\ download_response("csv", stem).status = 200
                /\ download_response("json", stem).status = 200

(* A download step changes no file, and its answer is 400 for a missing    *)
(* filename or a format other than csv and json, 404 when the file is not  *)
(* there, and the file otherwise.                                          *)
DownloadOnlyReads ==
    \A r \in Downloads :
        req[r].pc = "new" /\ req'[r].pc = "done" =>
            /\ fs' = fs
            /\ LET extension == IF req[r].format_type = "csv" THEN DotCsv ELSE DotJson
                   file_path == ExportOf(req[r].filename, extension)
               IN  IF req[r].filename = <<>> \/ req[r].format_type \notin {"csv", "json"}
                   THEN req'[r].status = 400
                   ELSE IF ~exists(file_path) THEN req'[r].status = 404
                   ELSE req'[r].status = 200 /\ req'[r].body = fs[file_path]

(* C15: once an upload of N.pb has completed with success its uploaded     *)
(* copy is gone and N.csv and N.json exist, so that a download of csv or   *)
(* json with filename N returns the file; and a download never creates,    *)
(* changes or removes a file, answering 400 for a missing filename or an   *)
(* unsupported format and 404 when the file does not exist.                *)
C15_ExportsDownloadable ==
    []UploadLeavesExports /\ [][DownloadOnlyReads]_vars

(* C16: an upload answered with an error leaves nothing behind.  After a   *)
(* 400 (no file part, empty name, name not ending in ".pb") and after a    *)
(* 500 (failure while saving, parsing or exporting) the temp directory     *)
(* holds no uploaded copy, CSV or JSON written by that request.            *)
C16_FailedUploadLeavesNothing ==
    \A r \in Uploads :
        Answered(r, 400) \/ Answered(r, 500) =>
            \A path \in DOMAIN fs : fs[path].writer # r

====
